---- MODULE Spec2Model ----
(***************************************************************************)
(* Model of xpublish/image_router.py: the two request handlers get_image   *)
(* ('/') and get_image_tile ('/tile/{parameter}/{t}/{z}/{x}/{y}').         *)
(*                                                                         *)
(* Both handlers are `async def` bodies without any await, so one body     *)
(* runs to completion on the event loop before the next one starts: the    *)
(* model has one request in flight and a program counter inside its body.  *)
(*                                                                         *)
(* Representation                                                          *)
(*   - a Python str that the code inspects (bbox) is a sequence of         *)
(*     one-character strings; other strings are opaque names;              *)
(*   - Optional[x] is a set with at most one element ({} is None);         *)
(*   - a data value is [nan |-> BOOLEAN, v |-> Int]; a scaled value is the *)
(*     fraction [nan, n, d] (n/d, not reduced);                            *)
(*   - EPSG:4326 coordinates are whole degrees, EPSG:3857 coordinates are  *)
(*     in units of 100 km.                                                 *)
(***************************************************************************)
EXTENDS Integers, Sequences, FiniteSets, TLC

(* ------------------------------ bounds -------------------------------- *)
\* most comma separated parts of a generated bbox string
MaxParts == 5
\* largest width, height and tile size requested
MaxDim == 2
\* deepest zoom level requested
MaxZoom == 1
\* the counter of finished requests saturates here
MaxRequests == 1

(* --------------------------- python helpers --------------------------- *)
None == {}

Some(x) == {x}

TheVal(o) == CHOOSE x \in o : TRUE

\* Python truthiness of an Optional[str]: None and '' are falsy
Falsy(o) == o = None \/ o = Some("")

Digits == <<"0", "1", "2", "3", "4", "5", "6", "7", "8", "9">>

IsDigit(c) == \E i \in 1..10 : Digits[i] = c

DigitVal(c) == (CHOOSE i \in 1..10 : Digits[i] = c) - 1

RECURSIVE SplitAcc(_, _, _)
SplitAcc(s, cur, acc) ==
  IF s = <<>> THEN Append(acc, cur)
  ELSE IF Head(s) = "," THEN SplitAcc(Tail(s), <<>>, Append(acc, cur))
  ELSE SplitAcc(Tail(s), Append(cur, Head(s)), acc)

\* str.split(','): "a,,b" gives three parts, "" gives one empty part
Split(s) == SplitAcc(s, <<>>, <<>>)

Unsigned(p) == IF p # <<>> /\ Head(p) \in {"-", "+"} THEN Tail(p) ELSE p

\* float(p) succeeds: over the characters used here, [+-]?[0-9]+
IsFloat(p) ==
  /\ Unsigned(p) # <<>>
  /\ \A i \in 1..Len(Unsigned(p)) : IsDigit(Unsigned(p)[i])

RECURSIVE NatVal(_)
NatVal(p) ==
  IF p = <<>> THEN 0
  ELSE 10 * NatVal(SubSeq(p, 1, Len(p) - 1)) + DigitVal(p[Len(p)])

FloatVal(p) == IF Head(p) = "-" THEN 0 - NatVal(Unsigned(p)) ELSE NatVal(Unsigned(p))

\* xmin, ymin, xmax, ymax = [float(x) for x in query.bbox.split(',')]
\* every part is converted first (ValueError), then the list is unpacked
\* into four names (ValueError)
ParseBboxLenient(bbox) ==
  LET parts == Split(bbox)
  IN IF (\A i \in 1..Len(parts) : IsFloat(parts[i])) /\ Len(parts) <= 4
     THEN [ok |-> TRUE,
           val |-> [i \in 1..4 |-> IF i <= Len(parts) THEN FloatVal(parts[i]) ELSE 0]]
     ELSE [ok |-> FALSE, val |-> [i \in 1..4 |-> 0]]

ParseBbox(bbox) ==
  LET parts == Split(bbox)
  IN IF (\A i \in 1..Len(parts) : IsFloat(parts[i])) /\ Len(parts) = 4
     THEN [ok |-> TRUE, val |-> [i \in 1..4 |-> FloatVal(parts[i])]]
     ELSE [ok |-> FALSE, val |-> [i \in 1..4 |-> 0]]

(* ---------------------- coordinate transformation --------------------- *)
\* inverse Mercator on the modelled range: 100 km east is 9/10 degree
LonOf(x) == IF x >= 0 THEN (x * 9) \div 10 ELSE 0 - (((0 - x) * 9) \div 10)

\* 6000 km north of the equator is 47 degrees north
LatOf(y) == IF y >= 0 THEN (y * 47) \div 60 ELSE 0 - (((0 - y) * 47) \div 60)

\* Transformer.from_crs(crs, "EPSG:4326").transform(a, b): no always_xy, so
\* the result is in the authority axis order of EPSG:4326: (lat, lon)
Transform(crs, a, b) ==
  IF crs = "EPSG:3857" THEN <<LatOf(b), LonOf(a)>> ELSE <<a, b>>

\* the value handed to pyproj for an Optional[str]
CrsName(o) == IF o = None THEN "None" ELSE TheVal(o)

\* the CRS names pyproj resolves; any other value raises CRSError
KnownCrs == {"EPSG:4326", "EPSG:3857"}

\* lines 54-60 of get_image
BboxCorners(crs, b) ==
  IF crs # "EPSG:4326"
  THEN [min_coord |-> Transform(crs, b[1], b[2]),
        max_coord |-> Transform(crs, b[3], b[4])]
  ELSE [min_coord |-> <<b[1], b[2]>>, max_coord |-> <<b[3], b[4]>>]

(* ------------------------------ dataset ------------------------------- *)
\* grid of the modelled datasets, ascending, in degrees
Lons == <<-50, -25, 0, 25, 50>>

Lats == <<-40, 0, 40>>

Times == {"t1", "t2"}

NaN == [nan |-> TRUE, v |-> 0]

Num(n) == [nan |-> FALSE, v |-> n]

Index(seq, e) == CHOOSE i \in 1..Len(seq) : seq[i] = e

Keys == {<<t, Lons[i], Lats[j]>> : t \in Times, i \in 1..Len(Lons), j \in 1..Len(Lats)}

Gradient == [k \in Keys |->
               Num(Index(Lons, k[2]) + Index(Lats, k[3]) - 2 + (IF k[1] = "t2" THEN 1 ELSE 0))]

Uniform == [k \in Keys |-> Num(3)]

Holes == [k \in Keys |-> IF k[2] = k[3] THEN NaN ELSE Gradient[k]]

MakeDataset(crs, data) ==
  [crs |-> crs, vars |-> {"temp"}, times |-> Times, lons |-> Lons, lats |-> Lats,
   data |-> data]

\* the datasets the dependency get_dataset may supply
Datasets ==
  {MakeDataset(None, Gradient), MakeDataset(Some("EPSG:4326"), Uniform),
   MakeDataset(Some("EPSG:4326"), Holes)}

NoData == [crs |-> None, vars |-> {}, lons |-> <<>>, lats |-> <<>>,
           vals |-> [p \in {} |-> NaN]]

Between(seq, lo, hi) == SelectSeq(seq, LAMBDA e : lo <= e /\ e <= hi)

SeqRange(seq) == {seq[i] : i \in 1..Len(seq)}

\* dataset.cf.sel({'X': slice(x0, x1), 'Y': slice(y0, y1), 'T': t}).squeeze()
\* label slices on an ascending index include both ends; a missing T label
\* raises KeyError; the result is a new object
SelXYT(ds, x0, x1, y0, y1, t) ==
  IF t \notin ds.times THEN [ok |-> FALSE, val |-> NoData]
  ELSE LET lons == Between(ds.lons, x0, x1)
           lats == Between(ds.lats, y0, y1)
       IN [ok |-> TRUE,
           val |-> [crs |-> ds.crs, vars |-> ds.vars, lons |-> lons, lats |-> lats,
                    vals |-> [p \in SeqRange(lons) \X SeqRange(lats) |->
                                ds.data[<<t, p[1], p[2]>>]]]]

\* dataset.cf.sel({'T': t}).squeeze()
SelT(ds, t) ==
  IF t \notin ds.times THEN [ok |-> FALSE, val |-> NoData]
  ELSE [ok |-> TRUE,
        val |-> [crs |-> ds.crs, vars |-> ds.vars, lons |-> ds.lons, lats |-> ds.lats,
                 vals |-> [p \in SeqRange(ds.lons) \X SeqRange(ds.lats) |->
                             ds.data[<<t, p[1], p[2]>>]]]]

\* obj.rio.write_crs(4326), inplace=False: the receiver is left alone and a
\* copy carrying the CRS is returned
WriteCrsInplace(obj) ==
  [self |-> [obj EXCEPT !.crs = Some("EPSG:4326")],
   result |-> [obj EXCEPT !.crs = Some("EPSG:4326")]]

WriteCrs(obj) ==
  [self |-> obj, result |-> [obj EXCEPT !.crs = Some("EPSG:4326")]]

(* ----------------------------- resampling ----------------------------- *)
NoArray == [crs |-> "", rows |-> 0, cols |-> 0, px |-> [p \in {} |-> NaN]]

\* q[parameter].rio.reproject(crs, shape=shape, resampling=bilinear)
\* rioxarray reads shape as (dst_height, dst_width) = (rows, columns).
\* A missing variable raises KeyError, an unknown CRS raises CRSError, and a
\* slice with fewer than two points on an axis has lost that axis in
\* squeeze() and cannot be reprojected.  Row 1 is the northern edge.  The
\* interpolation itself is the library's; a pixel takes the value of the
\* source node its index maps to.
Reproject(q, parameter, crs, shape) ==
  LET nLon == Len(q.lons)
      nLat == Len(q.lats)
      rows == shape[1]
      cols == shape[2]
  IN IF parameter \notin q.vars \/ crs \notin KnownCrs \/ nLon < 2 \/ nLat < 2
        \/ rows < 1 \/ cols < 1
     THEN [ok |-> FALSE, val |-> NoArray]
     ELSE [ok |-> TRUE,
           val |-> [crs |-> crs, rows |-> rows, cols |-> cols,
                    px |-> [p \in (1..rows) \X (1..cols) |->
                              q.vals[<<q.lons[((p[2] - 1) * nLon) \div cols + 1],
                                       q.lats[nLat - (((p[1] - 1) * nLat) \div rows)]>>]]]]

\* Mercator latitude of the tile edge k of n (k = 0 is the northern edge)
MercLat == <<0, 41, 66, 79, 85>>

Abs(i) == IF i < 0 THEN 0 - i ELSE i

TileLat(k, n) ==
  LET f == n - 2 * k
      lat == MercLat[(4 * Abs(f)) \div n + 1]
  IN IF f < 0 THEN 0 - lat ELSE lat

RECURSIVE Pow2(_)
Pow2(z) == IF z = 0 THEN 1 ELSE 2 * Pow2(z - 1)

\* mercantile.bounds(x, y, z)
TileBounds(x, y, z) ==
  [west |-> (x * 360) \div Pow2(z) - 180, east |-> ((x + 1) * 360) \div Pow2(z) - 180,
   north |-> TileLat(y, Pow2(z)), south |-> TileLat(y + 1, Pow2(z))]

\* np.linspace(a, b, n)[i], i from 1
Linspace(a, b, n, i) == IF n = 1 THEN a ELSE a + ((i - 1) * (b - a)) \div (n - 1)

\* greatest node of seq that is <= e
NodeBelow(seq, e) == seq[Len(Between(seq, seq[1], e))]

\* xe.Regridder(q, ds_out, "bilinear")(q[parameter]), then
\* .rio.write_crs(4326).rio.set_spatial_dims('lon', 'lat').rio.reproject("EPSG:3857")
\* Target points outside the source grid are unmapped and get 0; a point
\* inside takes the value of the source node below it.  A grid of one point
\* has no resolution and cannot be reprojected.
Regrid(q, parameter, bbox, size) ==
  IF parameter \notin q.vars \/ size < 2
  THEN [ok |-> FALSE, val |-> NoArray]
  ELSE [ok |-> TRUE,
        val |-> [crs |-> "EPSG:3857", rows |-> size, cols |-> size,
                 px |-> [p \in (1..size) \X (1..size) |->
                           LET lon == Linspace(bbox.west, bbox.east, size, p[2])
                               lat == Linspace(bbox.south, bbox.north, size, size + 1 - p[1])
                           IN IF /\ q.lons[1] <= lon /\ lon <= q.lons[Len(q.lons)]
                                 /\ q.lats[1] <= lat /\ lat <= q.lats[Len(q.lats)]
                              THEN q.vals[<<NodeBelow(q.lons, lon), NodeBelow(q.lats, lat)>>]
                              ELSE Num(0)]]]

(* --------------------- normalize, colorize, encode -------------------- *)
ScaledNaN == [nan |-> TRUE, n |-> 0, d |-> 1]

Values(arr) == {arr.px[p].v : p \in {p \in DOMAIN arr.px : ~arr.px[p].nan}}

MinOfSet(S) == CHOOSE m \in S : \A x \in S : m <= x

MaxOfSet(S) == CHOOSE m \in S : \A x \in S : x <= m

\* resampled_data.min(): NaN cells are skipped, an array of NaN gives NaN
ArrMin(arr) == IF Values(arr) = {} THEN NaN ELSE Num(MinOfSet(Values(arr)))

\* resampled_data.max()
ArrMax(arr) == IF Values(arr) = {} THEN NaN ELSE Num(MaxOfSet(Values(arr)))

\* (resampled_data - min_value) / (max_value - min_value), cell by cell:
\* NaN propagates and 0/0 is NaN (with min_value and max_value taken from
\* the array, a zero denominator always meets a zero numerator)
Scale(arr, min_value, max_value) ==
  [rows |-> arr.rows, cols |-> arr.cols,
   px |-> [p \in DOMAIN arr.px |->
             IF arr.px[p].nan \/ min_value.nan \/ max_value.nan
                \/ max_value.v - min_value.v = 0
             THEN ScaledNaN
             ELSE [nan |-> FALSE, n |-> arr.px[p].v - min_value.v,
                   d |-> max_value.v - min_value.v]]]

NoScaled == [rows |-> 0, cols |-> 0, px |-> [p \in {} |-> ScaledNaN]]

\* the names cm.get_cmap resolves; any other name raises ValueError
Colormaps == {"rainbow", "viridis"}

\* entries of a matplotlib lookup table
LutSize == 256

\* index into the lookup table: int(x * N), x = 1 and above take the last
\* entry, x below 0 the first, NaN the "bad" entry (-1)
LutIndex(x) ==
  IF x.nan THEN 0 - 1
  ELSE IF x.n < 0 THEN 0
  ELSE IF x.n >= x.d THEN LutSize - 1
  ELSE (x.n * LutSize) \div x.d

NoImage == [width |-> 0, height |-> 0, px |-> [p \in {} |-> <<"", 0>>]]

\* Image.fromarray(np.uint8(cm.get_cmap(name)(ds_scaled) * 255)): an array
\* of shape (rows, cols, 4) becomes an image cols wide and rows high; a
\* pixel is the colour <<name, index>> of the lookup table
Colorize(name, scaled) ==
  IF name \notin Colormaps THEN [ok |-> FALSE, val |-> NoImage]
  ELSE [ok |-> TRUE,
        val |-> [width |-> scaled.cols, height |-> scaled.rows,
                 px |-> [p \in DOMAIN scaled.px |-> <<name, LutIndex(scaled.px[p])>>]]]

\* if not query.cmap: query.cmap = 'rainbow'
AlwaysRainbow(cmap) == Some("rainbow")

DefaultCmap(cmap) == IF Falsy(cmap) THEN Some("rainbow") ELSE cmap

NoBytes == <<>>

\* im.save(image_bytes, format='PNG'); image_bytes.getvalue(): signature,
\* header with width and height, then the pixels row by row
EncodePNG(image) ==
  <<"PNG", image.width, image.height>>
    \o [i \in 1..(image.width * image.height) |->
          image.px[<<((i - 1) \div image.width) + 1, ((i - 1) % image.width) + 1>>]]

\* Response(content=image_bytes, media_type='image/png')
JpegResponse(content) == [content |-> content, media_type |-> "image/jpeg"]

MakeResponse(content) == [content |-> content, media_type |-> "image/png"]

(* -------------------------- request handling -------------------------- *)
\* characters of the generated bbox parts
PartSet == {<<"-", "6", "0">>, <<"6", "0">>, <<"x">>}

RECURSIVE Join(_)
Join(parts) ==
  IF Len(parts) = 1 THEN parts[1]
  ELSE parts[1] \o <<",">> \o Join(Tail(parts))

BboxStrings == {Join(ps) : ps \in UNION {[1..n -> PartSet] : n \in 1..MaxParts}}

Dims == 1..MaxDim

\* variable names asked for; the datasets hold "temp" only
Parameters == {"temp", "nope"}

CrsChoices == {None, Some("EPSG:4326"), Some("EPSG:3857")}

CmapChoices == {None, Some(""), Some("viridis")}

Tiles == UNION {{<<z, x, y>> : x \in 0..(Pow2(z) - 1), y \in 0..(Pow2(z) - 1)} :
                 z \in 0..MaxZoom}

NoReq == [endpoint |-> "none"]

NoQuery == [bbox |-> <<>>, width |-> 0, height |-> 0, parameter |-> "",
            datetime |-> "", crs |-> None, cmap |-> None]

\* ImageQuery(bbox=..., ..., crs=crs): crs is declared `str = Field(...)`,
\* so None is rejected with a ValidationError
ImageQueryAnyCrs(bbox, width, height, parameter, datetime, crs, cmap) ==
  [ok |-> TRUE,
   val |-> [bbox |-> bbox, width |-> width, height |-> height,
            parameter |-> parameter, datetime |-> datetime, crs |-> crs, cmap |-> cmap]]

ImageQuery(bbox, width, height, parameter, datetime, crs, cmap) ==
  IF crs = None THEN [ok |-> FALSE, val |-> NoQuery]
  ELSE [ok |-> TRUE,
        val |-> [bbox |-> bbox, width |-> width, height |-> height,
                 parameter |-> parameter, datetime |-> datetime, crs |-> crs,
                 cmap |-> cmap]]

\* the dependency: crs defaults to None when the request omits it
image_query(bbox, width, height, parameter, datetime, crs, cmap) ==
  ImageQuery(bbox, width, height, parameter, datetime, crs, cmap)

\* statement order of the body of get_image
ImageNextSliceFirst(step) ==
  CASE step = "parse" -> "slice"
    [] step = "slice" -> "transform"
    [] step = "transform" -> "resample"
    [] step = "resample" -> "normalize"
    [] step = "normalize" -> "colorize"
    [] step = "colorize" -> "encode"
    [] step = "encode" -> "respond"
    [] step = "respond" -> "done"

ImageNext(step) ==
  CASE step = "parse" -> "transform"
    [] step = "transform" -> "slice"
    [] step = "slice" -> "resample"
    [] step = "resample" -> "normalize"
    [] step = "normalize" -> "colorize"
    [] step = "colorize" -> "encode"
    [] step = "encode" -> "respond"
    [] step = "respond" -> "done"

\* statement order of the body of get_image_tile
TileNext(step) ==
  CASE step = "slice" -> "transform"
    [] step = "transform" -> "resample"
    [] step = "resample" -> "normalize"
    [] step = "normalize" -> "colorize"
    [] step = "colorize" -> "encode"
    [] step = "encode" -> "respond"
    [] step = "respond" -> "done"

\* min_value = 0
TileMin == 0

\* max_value = 5
TileMax == 5

VARIABLES
  dataset,      \* the dataset object owned by the application
  dataset0,     \* history: the dataset at start-up
  served,       \* history: finished requests (saturating)
  pc,           \* next step of the request in flight
  req,          \* the request as received
  query,        \* the ImageQuery object of get_image
  ds,           \* the handler's local name `dataset`
  xy,           \* xmin, ymin, xmax, ymax
  corners,      \* min_coord, max_coord
  tile_bbox,    \* bbox of get_image_tile
  q, resampled_data, ds_scaled, im, image_bytes,
  responses,    \* Response objects returned for the request in flight
  steps,        \* steps started by the request in flight
  error         \* the exception that ended the request in flight, or ""

vars == <<dataset, dataset0, served, pc, req, query, ds, xy, corners, tile_bbox, q,
          resampled_data, ds_scaled, im, image_bytes, responses, steps, error>>

hist == <<dataset0, served>>

NoXY == [i \in 1..4 |-> 0]

NoCorners == [min_coord |-> <<0, 0>>, max_coord |-> <<0, 0>>]

NoBounds == [west |-> 0, east |-> 0, north |-> 0, south |-> 0]

\* nothing of a request is in scope
NoLocals ==
  /\ req = NoReq /\ query = NoQuery /\ ds = NoData /\ xy = NoXY
  /\ corners = NoCorners /\ tile_bbox = NoBounds /\ q = NoData
  /\ resampled_data = NoArray /\ ds_scaled = NoScaled /\ im = NoImage
  /\ image_bytes = NoBytes /\ responses = <<>> /\ steps = <<>> /\ error = ""

Init ==
  /\ dataset \in Datasets
  /\ dataset0 = dataset
  /\ served = 0
  /\ pc = "idle"
  /\ NoLocals

\* an exception leaves the body: nothing is returned
Raise(step, exc) ==
  /\ pc' = "error"
  /\ error' = exc
  /\ steps' = Append(steps, step)
  /\ responses' = responses

Advance(step, next) ==
  /\ pc' = next
  /\ steps' = Append(steps, step)
  /\ error' = error
  /\ responses' = responses

\* GET /?bbox=...&width=...: the dependencies image_query and get_dataset
\* are resolved, then the body starts
ReceiveImage ==
  /\ pc = "idle"
  /\ \E bbox \in BboxStrings, width \in Dims, height \in Dims, parameter \in {"temp"},
        datetime \in Times, crs \in CrsChoices, cmap \in CmapChoices :
       LET r == image_query(bbox, width, height, parameter, datetime, crs, cmap)
       IN /\ req' = [endpoint |-> "image", bbox |-> bbox, width |-> width,
                     height |-> height, parameter |-> parameter,
                     datetime |-> datetime, crs |-> crs, cmap |-> cmap]
          /\ query' = r.val
          /\ pc' = IF r.ok THEN "parse" ELSE "error"
          /\ error' = IF r.ok THEN "" ELSE "ValidationError"
  /\ ds' = dataset
  /\ UNCHANGED <<dataset, hist, xy, corners, tile_bbox, q, resampled_data, ds_scaled, im,
                 image_bytes, responses, steps>>

\* line 52
ImgParse ==
  /\ pc = "parse" /\ req.endpoint = "image"
  /\ LET r == ParseBbox(query.bbox)
     IN IF r.ok
        THEN xy' = r.val /\ Advance("parse", ImageNext("parse"))
        ELSE xy' = xy /\ Raise("parse", "ValueError")
  /\ UNCHANGED <<dataset, hist, req, query, ds, corners, tile_bbox, q, resampled_data,
                 ds_scaled, im, image_bytes>>

\* lines 54-60
ImgTransform ==
  /\ pc = "transform" /\ req.endpoint = "image"
  /\ IF CrsName(query.crs) \in KnownCrs
     THEN /\ corners' = BboxCorners(CrsName(query.crs), xy)
          /\ Advance("transform", ImageNext("transform"))
     ELSE corners' = corners /\ Raise("transform", "CRSError")
  /\ UNCHANGED <<dataset, hist, req, query, ds, xy, tile_bbox, q, resampled_data,
                 ds_scaled, im, image_bytes>>

\* lines 61-65
ImgSlice ==
  /\ pc = "slice" /\ req.endpoint = "image"
  /\ LET r == SelXYT(ds, corners.min_coord[1], corners.max_coord[1],
                     corners.min_coord[2], corners.max_coord[2], query.datetime)
     IN IF r.ok
        THEN /\ q' = IF r.val.crs = None THEN WriteCrs(r.val).result ELSE r.val
             /\ Advance("slice", ImageNext("slice"))
        ELSE q' = q /\ Raise("slice", "KeyError")
  /\ UNCHANGED <<dataset, hist, req, query, ds, xy, corners, tile_bbox, resampled_data,
                 ds_scaled, im, image_bytes>>

\* lines 69-73
ImgResample ==
  /\ pc = "resample" /\ req.endpoint = "image"
  /\ LET r == Reproject(q, query.parameter, CrsName(query.crs),
                        <<query.width, query.height>>)
     IN IF r.ok
        THEN resampled_data' = r.val /\ Advance("resample", ImageNext("resample"))
        ELSE resampled_data' = resampled_data /\ Raise("resample", "LibraryError")
  /\ UNCHANGED <<dataset, hist, req, query, ds, xy, corners, tile_bbox, q, ds_scaled, im,
                 image_bytes>>

\* lines 77-81
ImgNormalize ==
  /\ pc = "normalize" /\ req.endpoint = "image"
  /\ ds_scaled' = Scale(resampled_data, ArrMin(resampled_data), ArrMax(resampled_data))
  /\ Advance("normalize", ImageNext("normalize"))
  /\ UNCHANGED <<dataset, hist, req, query, ds, xy, corners, tile_bbox, q, resampled_data,
                 im, image_bytes>>

\* lines 85-87
ImgColorize ==
  /\ pc = "colorize" /\ req.endpoint = "image"
  /\ query' = [query EXCEPT !.cmap = DefaultCmap(query.cmap)]
  /\ LET r == Colorize(TheVal(query'.cmap), ds_scaled)
     IN IF r.ok
        THEN im' = r.val /\ Advance("colorize", ImageNext("colorize"))
        ELSE im' = im /\ Raise("colorize", "ValueError")
  /\ UNCHANGED <<dataset, hist, req, ds, xy, corners, tile_bbox, q, resampled_data,
                 ds_scaled, image_bytes>>

\* lines 89-91
ImgEncode ==
  /\ pc = "encode" /\ req.endpoint = "image"
  /\ image_bytes' = EncodePNG(im)
  /\ Advance("encode", ImageNext("encode"))
  /\ UNCHANGED <<dataset, hist, req, query, ds, xy, corners, tile_bbox, q, resampled_data,
                 ds_scaled, im>>

\* line 93
ImgRespond ==
  /\ pc = "respond" /\ req.endpoint = "image"
  /\ responses' = Append(responses, MakeResponse(image_bytes))
  /\ pc' = ImageNext("respond")
  /\ steps' = Append(steps, "respond")
  /\ UNCHANGED <<dataset, hist, req, query, ds, xy, corners, tile_bbox, q, resampled_data,
                 ds_scaled, im, image_bytes, error>>

\* GET /tile/{parameter}/{t}/{z}/{x}/{y}?size=...: the framework binds the
\* path and query parameters and resolves get_dataset, then the body starts
ReceiveTile ==
  /\ pc = "idle"
  /\ \E parameter \in Parameters, t \in Times \cup {"t9"}, tile \in Tiles, size \in Dims :
       req' = [endpoint |-> "tile", parameter |-> parameter, t |-> t, z |-> tile[1],
               x |-> tile[2], y |-> tile[3], size |-> size]
  /\ ds' = dataset
  /\ pc' = "slice"
  /\ UNCHANGED <<dataset, hist, query, xy, corners, tile_bbox, q, resampled_data,
                 ds_scaled, im, image_bytes, responses, steps, error>>

\* lines 97-99: `dataset` is the injected object itself, so write_crs is
\* called on the application's dataset and its result rebinds the local name
TileSlice ==
  /\ pc = "slice" /\ req.endpoint = "tile"
  /\ LET w == IF ds.crs = None THEN WriteCrs(ds) ELSE [self |-> ds, result |-> ds]
         r == SelT(w.result, req.t)
     IN /\ dataset' = [dataset EXCEPT !.crs = w.self.crs]
        /\ ds' = [ds EXCEPT !.crs = w.result.crs]
        /\ IF r.ok
           THEN q' = r.val /\ Advance("slice", TileNext("slice"))
           ELSE q' = q /\ Raise("slice", "KeyError")
  /\ UNCHANGED <<hist, req, query, xy, corners, tile_bbox, resampled_data, ds_scaled, im,
                 image_bytes>>

\* lines 100-101
TileBbox ==
  /\ pc = "transform" /\ req.endpoint = "tile"
  /\ tile_bbox' = TileBounds(req.x, req.y, req.z)
  /\ Advance("transform", TileNext("transform"))
  /\ UNCHANGED <<dataset, hist, req, query, ds, xy, corners, q, resampled_data, ds_scaled,
                 im, image_bytes>>

\* lines 104-112
TileResample ==
  /\ pc = "resample" /\ req.endpoint = "tile"
  /\ LET r == Regrid(q, req.parameter, tile_bbox, req.size)
     IN IF r.ok
        THEN resampled_data' = r.val /\ Advance("resample", TileNext("resample"))
        ELSE resampled_data' = resampled_data /\ Raise("resample", "LibraryError")
  /\ UNCHANGED <<dataset, hist, req, query, ds, xy, corners, tile_bbox, q, ds_scaled, im,
                 image_bytes>>

\* lines 116-120
TileNormalize ==
  /\ pc = "normalize" /\ req.endpoint = "tile"
  /\ ds_scaled' = Scale(resampled_data, Num(TileMin), Num(TileMax))
  /\ Advance("normalize", TileNext("normalize"))
  /\ UNCHANGED <<dataset, hist, req, query, ds, xy, corners, tile_bbox, q, resampled_data,
                 im, image_bytes>>

\* line 126
TileColorize ==
  /\ pc = "colorize" /\ req.endpoint = "tile"
  /\ im' = Colorize("rainbow", ds_scaled).val
  /\ Advance("colorize", TileNext("colorize"))
  /\ UNCHANGED <<dataset, hist, req, query, ds, xy, corners, tile_bbox, q, resampled_data,
                 ds_scaled, image_bytes>>

\* lines 128-130
TileEncode ==
  /\ pc = "encode" /\ req.endpoint = "tile"
  /\ image_bytes' = EncodePNG(im)
  /\ Advance("encode", TileNext("encode"))
  /\ UNCHANGED <<dataset, hist, req, query, ds, xy, corners, tile_bbox, q, resampled_data,
                 ds_scaled, im>>

\* line 132
TileRespond ==
  /\ pc = "respond" /\ req.endpoint = "tile"
  /\ responses' = Append(responses, MakeResponse(image_bytes))
  /\ pc' = TileNext("respond")
  /\ steps' = Append(steps, "respond")
  /\ UNCHANGED <<dataset, hist, req, query, ds, xy, corners, tile_bbox, q, resampled_data,
                 ds_scaled, im, image_bytes, error>>

\* the request is over: its query, dataset binding and intermediate arrays
\* go out of scope
Finish ==
  /\ pc \in {"done", "error"}
  /\ pc' = "idle"
  /\ served' = IF served < MaxRequests THEN served + 1 ELSE served
  /\ req' = NoReq /\ query' = NoQuery /\ ds' = NoData /\ xy' = NoXY
  /\ corners' = NoCorners /\ tile_bbox' = NoBounds /\ q' = NoData
  /\ resampled_data' = NoArray /\ ds_scaled' = NoScaled /\ im' = NoImage
  /\ image_bytes' = NoBytes /\ responses' = <<>> /\ steps' = <<>> /\ error' = ""
  /\ UNCHANGED <<dataset, dataset0>>

Next ==
  \/ ReceiveImage
  \/ ImgParse
  \/ ImgTransform
  \/ ImgSlice
  \/ ImgResample
  \/ ImgNormalize
  \/ ImgColorize
  \/ ImgEncode
  \/ ImgRespond
  \/ ReceiveTile
  \/ TileSlice
  \/ TileBbox
  \/ TileResample
  \/ TileNormalize
  \/ TileColorize
  \/ TileEncode
  \/ TileRespond
  \/ Finish

Spec == Init /\ [][Next]_vars

TypeOK ==
  /\ dataset \in Datasets
  /\ pc \in {"idle", "parse", "transform", "slice", "resample", "normalize", "colorize",
             "encode", "respond", "done", "error"}
  /\ served \in 0..MaxRequests
  /\ Len(responses) <= 1

(* ------------------------------- claims ------------------------------- *)
Image == req.endpoint = "image"

Tile == req.endpoint = "tile"

\* the request in flight has got past the named step without an exception
Past(step) == error = "" /\ \E i \in 1..Len(steps) : steps[i] = step

IsPrefix(s, t) == Len(s) <= Len(t) /\ \A i \in 1..Len(s) : s[i] = t[i]

\* C1: a request of either endpoint that ends without an exception has
\* returned exactly one response, of media type image/png, whose content is
\* the PNG encoding of the colorized array; no response exists before the
\* body has finished.
C1_OnePngResponse ==
  /\ Len(responses) <= 1
  /\ pc # "done" => responses = <<>>
  /\ (pc \in {"done", "error"} /\ error = "") =>
       /\ Len(responses) = 1
       /\ responses[1].media_type = "image/png"
       /\ responses[1].content[1] = "PNG"
       /\ responses[1].content[2] = im.width
       /\ responses[1].content[3] = im.height
       /\ \A p \in DOMAIN im.px :
            responses[1].content[3 + (p[1] - 1) * im.width + p[2]] = im.px[p]
       /\ Len(responses[1].content) = 3 + im.width * im.height
       /\ DOMAIN im.px = DOMAIN ds_scaled.px
       /\ \A p \in DOMAIN im.px : im.px[p][2] = LutIndex(ds_scaled.px[p])

C1_Witness ==
  /\ pc = "done" /\ Image /\ Len(responses) = 1
  /\ req.crs = Some("EPSG:3857") /\ im.width * im.height = 2

Pipeline ==
  <<"parse", "transform", "slice", "resample", "normalize", "colorize", "encode",
    "respond">>

TilePipeline ==
  <<"slice", "transform", "resample", "normalize", "colorize", "encode", "respond">>

\* C2 as stated: both handlers run parse, transform bounding box, slice,
\* resample, normalize, colorize, encode, respond, in this order, each once.
C2_AsStated ==
  (Image \/ Tile) => /\ IsPrefix(steps, Pipeline)
                     /\ pc = "done" => steps = Pipeline

\* C2 amended: get_image runs parse, transform bounding box, slice,
\* resample, normalize, colorize, encode, respond; get_image_tile has no
\* parse step in its body and slices the dataset before it computes the
\* bounding box of the tile: slice, bounding box, resample, normalize,
\* colorize, encode, respond.  In both every step of a successful request
\* happens once, in this order, and respond is last.
C2_Pipelines ==
  /\ Image => /\ IsPrefix(steps, Pipeline)
              /\ pc = "done" => steps = Pipeline
              /\ pc \notin {"idle", "done", "error"} => pc = Pipeline[Len(steps) + 1]
  /\ Tile => /\ IsPrefix(steps, TilePipeline)
             /\ pc = "done" => steps = TilePipeline
             /\ pc \notin {"idle", "done", "error"} => pc = TilePipeline[Len(steps) + 1]
  /\ responses # <<>> => steps[Len(steps)] = "respond"

C2_Witness == pc = "done" /\ Tile /\ steps = TilePipeline /\ tile_bbox.north = 85

\* C3: no request changes the application's dataset, so every request is
\* handed the dataset of start-up, and between requests nothing of a
\* request is left (no query, no dataset binding, no intermediate array).
C3_DatasetUntouched ==
  /\ dataset = dataset0
  /\ pc = "idle" => NoLocals
  /\ pc # "idle" => ds.data = dataset0.data /\ ds.crs \in {dataset0.crs, Some("EPSG:4326")}

C3_Witness ==
  /\ served >= 1 /\ pc = "done" /\ Tile
  /\ dataset.crs = None /\ ds.crs = Some("EPSG:4326") /\ q.crs = Some("EPSG:4326")

\* C4 as stated: the image returned by get_image is width pixels wide and
\* height pixels high.
C4_WidthHeight ==
  (Image /\ Past("colorize")) => im.width = req.width /\ im.height = req.height

\* the corners of the requested bbox in EPSG:4326, as (x, y) = (lon, lat)
MinXY ==
  IF req.crs = Some("EPSG:4326") THEN <<xy[1], xy[2]>> ELSE <<LonOf(xy[1]), LatOf(xy[2])>>

MaxXY ==
  IF req.crs = Some("EPSG:4326") THEN <<xy[3], xy[4]>> ELSE <<LonOf(xy[3]), LatOf(xy[4])>>

\* C5 as stated: get_image slices X between the x components (longitudes)
\* and Y between the y components (latitudes) of the bbox corners taken to
\* EPSG:4326, and T at query.datetime, then reprojects to crs.
C5_SliceByCorners ==
  /\ (Image /\ Past("slice")) =>
       /\ q.lons = Between(ds.lons, MinXY[1], MaxXY[1])
       /\ q.lats = Between(ds.lats, MinXY[2], MaxXY[2])
       /\ \A p \in DOMAIN q.vals : q.vals[p] = ds.data[<<req.datetime, p[1], p[2]>>]
  /\ (Image /\ Past("resample")) => resampled_data.crs = TheVal(req.crs)

\* the colour map of the request as received
Requested == IF req.cmap = None \/ req.cmap = Some("") THEN "rainbow" ELSE TheVal(req.cmap)

\* C6: get_image colours with 'rainbow' when cmap is None or empty and with
\* the given colour map otherwise; the default is written to the query of
\* the request in flight only, which is gone when the request is over;
\* get_image_tile colours with 'rainbow'.
C6_Colormap ==
  /\ (Image /\ Past("colorize")) =>
       /\ DOMAIN im.px # {}
       /\ \A p \in DOMAIN im.px : im.px[p][1] = Requested
       /\ query.cmap = Some(Requested)
  /\ (Image /\ pc \in {"parse", "transform", "slice", "resample", "normalize", "colorize"}) =>
       query.cmap = req.cmap
  /\ (Tile /\ Past("colorize")) =>
       /\ DOMAIN im.px # {}
       /\ \A p \in DOMAIN im.px : im.px[p][1] = "rainbow"
  /\ (pc = "idle" \/ Tile) => query = NoQuery

C6_Witness ==
  /\ served >= 1 /\ pc = "done" /\ Image /\ req.cmap = None
  /\ query.cmap = Some("rainbow") /\ im.px[<<1, 1>>][1] = "rainbow"

\* cells of the resampled array that hold its minimum / maximum
AtMin(arr) == {p \in DOMAIN arr.px : ~arr.px[p].nan /\ arr.px[p] = ArrMin(arr)}

AtMax(arr) == {p \in DOMAIN arr.px : ~arr.px[p].nan /\ arr.px[p] = ArrMax(arr)}

InUnitInterval(x) == ~x.nan /\ 0 <= x.n /\ x.n <= x.d

\* C7 as stated: in get_image every scaled value of a data cell is
\* (v - min) / (max - min) with min and max of the same array, lies in
\* [0, 1], the minimum maps to 0 and the maximum maps to 1.
C7_Autoscale ==
  (Image /\ Past("normalize")) =>
    /\ \A p \in DOMAIN resampled_data.px :
         ~resampled_data.px[p].nan => InUnitInterval(ds_scaled.px[p])
    /\ \A p \in AtMin(resampled_data) : ds_scaled.px[p].n = 0
    /\ \A p \in AtMax(resampled_data) : ds_scaled.px[p].n = ds_scaled.px[p].d

\* C8 as stated: in get_image_tile the minimum of the tile's data maps to 0
\* and its maximum maps to 1.
C8_TileAutoscale ==
  (Tile /\ Past("normalize")) =>
    /\ \A p \in AtMin(resampled_data) : ~ds_scaled.px[p].nan /\ ds_scaled.px[p].n = 0
    /\ \A p \in AtMax(resampled_data) :
         ~ds_scaled.px[p].nan /\ ds_scaled.px[p].n = ds_scaled.px[p].d

Commas(s) == Cardinality({i \in 1..Len(s) : s[i] = ","})

\* 'xmin,ymin,xmax,ymax': three commas and a number in each of the four places
WellFormed(s) == Commas(s) = 3 /\ \A i \in 1..Len(Split(s)) : IsFloat(Split(s)[i])

\* C9: when the body of get_image runs on a bbox that is not four numbers
\* separated by commas, it ends with an error in the parse step: no other
\* step starts, no corner is computed, the dataset is not sliced, and no
\* response is returned.
C9_BadBboxFailsAtParse ==
  (Image /\ query # NoQuery /\ ~WellFormed(req.bbox)) =>
    /\ pc \in {"parse", "error"}
    /\ pc = "parse" => steps = <<>>
    /\ pc = "error" => steps = <<"parse">> /\ error = "ValueError"
    /\ xy = NoXY /\ corners = NoCorners /\ q = NoData /\ resampled_data = NoArray
    /\ im = NoImage /\ responses = <<>>

C9_Witness ==
  /\ Image /\ pc = "error" /\ error = "ValueError" /\ steps = <<"parse">>
  /\ Len(Split(req.bbox)) = 5 /\ \A i \in 1..5 : IsFloat(Split(req.bbox)[i])

\* C10: a get_image request without crs fails when the ImageQuery is built
\* (no step of the body starts, no response); whenever the body runs,
\* query.crs is a string.
C10_CrsRequired ==
  /\ (Image /\ req.crs = None) =>
       /\ pc = "error" /\ error = "ValidationError" /\ steps = <<>>
       /\ query = NoQuery /\ responses = <<>>
  /\ (Image /\ (steps # <<>> \/ pc \notin {"idle", "error"})) =>
       query.crs # None /\ query.crs = req.crs

C10_Witness ==
  /\ Image /\ req.crs = None /\ pc = "error" /\ error = "ValidationError"
  /\ WellFormed(req.bbox)

====
